---- MODULE Spec2Model ----
(***************************************************************************)
(* Model of the Tango device server Cryostat (pytango_cryostat.py) and of  *)
(* the script Test_cryoadvance.py, both clients of the REST adapter        *)
(* cryoadvance.CryoAdvance.  The adapter module itself is imported, not    *)
(* defined, by these files: its operators below follow its documented      *)
(* contract (module docstring of pytango_cryostat.py, the commented        *)
(* reference methods in that file, and the adapter specification).         *)
(*                                                                         *)
(* A call is one atomic step: the code is synchronous and blocking.  The   *)
(* transport is a mock whose answer (an error, or a decoded JSON body) is  *)
(* an input of the step.                                                   *)
(***************************************************************************)
EXTENDS Integers, Sequences, FiniteSets, TLC

VARIABLES program, IP, device, state, cryo, last, log

vars == <<program, IP, device, state, cryo, last, log>>

\* ------------------------------------------------------------------ bounds

\* Number of calls recorded in one behaviour.
MaxCalls == 2

\* ------------------------------------------------------------ input domains

\* Values of the IP device property.
IPs == {"192.168.1.123", "192.168.1.207"}

\* Errors the HTTP transport raises: unreachable host, non-2xx, undecodable JSON.
TransportErrors == {"ConnectionError", "HTTPError", "JSONDecodeError"}

\* Temperatures the instrument reports.
Temps == {3, 295}

\* Setpoints a client writes: below, at and above the attribute limits.
Vals == {-1, 0, 3, 350, 351}

\* --------------------------------------------------------------- constants

\* settemp attribute limits.
min_value == 0

max_value == 350

\* Address the test script builds its adapter with.
ScriptIP == "192.168.1.207"

None == "None"

NoAdapter == "unset"

\* ------------------------------------------------------------------- paths
\* A property path is the sequence of its slash-separated segments.

CooldownPath == <<"controller", "methods", "cooldown()">>

WarmupPath == <<"controller", "methods", "warmup()">>

PullVacuumPath == <<"controller", "methods", "pullVacuum()">>

AbortGoalPath == <<"controller", "methods", "abortGoal()">>

TargetTemperaturePath == <<"controller", "properties", "platformTargetTemperature">>

PlatformSamplePath ==
    <<"sampleChamber", "temperatureControllers", "platform", "thermometer",
      "properties", "sample">>

User1SamplePath ==
    <<"sampleChamber", "temperatureControllers", "user1", "thermometer",
      "properties", "sample">>

\* Paths the generic methods are exercised with.
MethodPaths == {CooldownPath, WarmupPath}

PropPaths == {TargetTemperaturePath, PlatformSamplePath}

\* Trailing path segment.
leaf(P) == P[Len(P)]

\* ---------------------------------------------------------- wire and values

NoBody == [present |-> FALSE, obj |-> <<>>]

\* The JSON object {key: value}.
JsonObject(key, value) == [present |-> TRUE, obj |-> << <<key, value>> >>]

Request(verb, host, path, body) ==
    [verb |-> verb, host |-> host, path |-> path, body |-> body]

Return(v) == [kind |-> "return", val |-> v]

Raise(e) == [kind |-> "raise", val |-> e]

\* What one call did: the requests it issued and how it ended.
Did(reqs, out) == [reqs |-> reqs, out |-> out]

\* The transport's answer to one request: it raised err, or decoded body.
Failure(err) == [err |-> err, body |-> <<>>]

Success(body) == [err |-> "none", body |-> body]

NoResponse == [err |-> "none", body |-> <<>>]

\* JSON true and false as Python decodes and compares them (True == 1, False == 0).
Flags == {0, 1}

\* A thermometer sample as the instrument reports it.
Sample(T, stabilityOK, stable) ==
    [temperature |-> T, temperatureOK |-> 1,
     temperatureStabilityOK |-> stabilityOK,
     temperatureStability |-> 0,
     temperatureStable |-> stable]

\* A decoded body without the expected envelope key.
Malformed == [message |-> "unexpected"]

\* Envelope of a property: its outer key is the path's final segment.
Envelope(path, inner) == (leaf(path) :> inner)

\* Acknowledgement body of a POST or PUT.
Ack == [status |-> "ok"]

\* --------------------------------------------- adapter: cryoadvance.CryoAdvance

\* POST to an action endpoint, no body; the decoded response, or the transport's error.
call_method(host, path, resp) ==
    Did(<<Request("POST", host, path, NoBody)>>,
        IF resp.err # "none" THEN Raise(resp.err) ELSE Return(resp.body))

\* Variant of get_prop that adds a key of its own to the envelope.
get_prop_annotated(host, path, resp) ==
    Did(<<Request("GET", host, path, NoBody)>>,
        IF resp.err # "none" THEN Raise(resp.err)
        ELSE Return(resp.body @@ ("path" :> path)))

\* GET of a property; the decoded envelope, or the transport's error.
get_prop(host, path, resp) ==
    Did(<<Request("GET", host, path, NoBody)>>,
        IF resp.err # "none" THEN Raise(resp.err) ELSE Return(resp.body))

\* Variant of set_prop that keys the body by the path's first segment.
set_prop_first_segment(host, path, value, resp) ==
    Did(<<Request("PUT", host, path, JsonObject(path[1], value))>>,
        IF resp.err # "none" THEN Raise(resp.err) ELSE Return(resp.body))

\* PUT of {leaf(path): value}; the decoded response, or the transport's error.
set_prop(host, path, value, resp) ==
    Did(<<Request("PUT", host, path, JsonObject(leaf(path), value))>>,
        IF resp.err # "none" THEN Raise(resp.err) ELSE Return(resp.body))

\* Python d[key] on the mapping a call returned; a raised call stays raised.
GetItem(d, key) ==
    IF d.out.kind = "raise" THEN d
    ELSE IF key \in DOMAIN d.out.val THEN Did(d.reqs, Return(d.out.val[key]))
    ELSE Did(d.reqs, Raise("KeyError"))

\* Python "return a, b" over two lookups in the same response.
Pair(a, b) ==
    IF a.out.kind = "raise" THEN a
    ELSE IF b.out.kind = "raise" THEN b
    ELSE Did(a.reqs, Return(<<a.out.val, b.out.val>>))

CryoAdvance_cooldown(host, resp) == call_method(host, CooldownPath, resp)

CryoAdvance_warmup(host, resp) == call_method(host, WarmupPath, resp)

CryoAdvance_pull_vacuum(host, resp) == call_method(host, PullVacuumPath, resp)

abort_goal(host, resp) == call_method(host, AbortGoalPath, resp)

get_platform_temperature(host, resp) ==
    GetItem(GetItem(get_prop(host, PlatformSamplePath, resp), "sample"), "temperature")

get_platform_temperature_stability(host, resp) ==
    LET r == GetItem(get_prop(host, PlatformSamplePath, resp), "sample")
    IN  Pair(GetItem(r, "temperatureStabilityOK"), GetItem(r, "temperatureStability"))

get_sample_temperature(host, resp) ==
    GetItem(GetItem(get_prop(host, User1SamplePath, resp), "sample"), "temperature")

get_platform_target_temperature(host, resp) ==
    GetItem(get_prop(host, TargetTemperaturePath, resp), "platformTargetTemperature")

set_platform_target_temperature(host, value, resp) ==
    set_prop(host, TargetTemperaturePath, value, resp)

\* The attributes a CryoAdvance object has.
AdapterMethods ==
    {"call_method", "get_prop", "set_prop", "cooldown", "warmup", "pull_vacuum",
     "abort_goal", "get_platform_temperature", "get_platform_temperature_rate",
     "get_platform_temperature_stability", "set_platform_target_temperature",
     "get_sample_temperature", "get_platform_target_temperature"}

\* self.device.<method>(arg): attribute lookup, then the call.
Dispatch(host, method, arg, resp) ==
    IF method \notin AdapterMethods THEN Did(<<>>, Raise("AttributeError"))
    ELSE CASE method = "cooldown" -> CryoAdvance_cooldown(host, resp)
           [] method = "warmup" -> CryoAdvance_warmup(host, resp)
           [] method = "pull_vacuum" -> CryoAdvance_pull_vacuum(host, resp)
           [] method = "abort_goal" -> abort_goal(host, resp)
           [] method = "get_platform_temperature" -> get_platform_temperature(host, resp)
           [] method = "get_platform_temperature_stability" ->
                  get_platform_temperature_stability(host, resp)
           [] method = "get_sample_temperature" -> get_sample_temperature(host, resp)
           [] method = "get_platform_target_temperature" ->
                  get_platform_target_temperature(host, resp)
           [] method = "set_platform_target_temperature" ->
                  set_platform_target_temperature(host, arg, resp)
           [] OTHER -> Did(<<>>, Raise("TypeError"))

\* ------------------------------------------------- device server: Cryostat

\* A method body without a return statement yields None.
NoReturn(d) == IF d.out.kind = "raise" THEN d ELSE Did(d.reqs, Return(None))

\* Python t[i] on the tuple a call returned.
GetIndex(d, i) ==
    IF d.out.kind = "raise" THEN d
    ELSE IF i + 1 \in DOMAIN d.out.val THEN Did(d.reqs, Return(d.out.val[i + 1]))
    ELSE Did(d.reqs, Raise("IndexError"))

cooldown(resp) == NoReturn(Dispatch(device, "cooldow", <<>>, resp))

warmup(resp) == NoReturn(Dispatch(device, "warmup", <<>>, resp))

pull_vacuum(resp) == NoReturn(Dispatch(device, "pull_vacuum", <<>>, resp))

abort(resp) == NoReturn(Dispatch(device, "abort_goal", <<>>, resp))

\* Variant of get_ptemp that swallows a failure and reports nothing.
get_ptemp_swallow(resp) ==
    LET d == Dispatch(device, "get_platform_temperature", <<>>, resp)
    IN  IF d.out.kind = "raise" THEN Did(d.reqs, Return(None)) ELSE d

\* Variant of get_ptemp that reads the sample thermometer.
get_ptemp_sample(resp) == Dispatch(device, "get_sample_temperature", <<>>, resp)

get_ptemp(resp) == Dispatch(device, "get_platform_temperature", <<>>, resp)

set_ptemp(value, resp) ==
    NoReturn(Dispatch(device, "set_platform_temperature", value, resp))

\* Variant of get_stability that takes the second element.
get_stability_second(resp) ==
    GetIndex(Dispatch(device, "get_platform_temperature_stability", <<>>, resp), 1)

get_stability(resp) ==
    GetIndex(Dispatch(device, "get_platform_temperature_stability", <<>>, resp), 0)

get_stemp(resp) == Dispatch(device, "get_sample_temperature", <<>>, resp)

get_settemp(resp) == Dispatch(device, "get_platform_target_temperature", <<>>, resp)

\* Variant of settemp without max_value.
settemp_no_max(value, resp) ==
    IF value < min_value
    THEN Did(<<>>, Raise("API_WAttrOutsideLimit"))
    ELSE set_ptemp(value, resp)

\* A write of the settemp attribute: the limits are checked, then fset runs.
settemp(value, resp) ==
    IF value < min_value \/ value > max_value
    THEN Did(<<>>, Raise("API_WAttrOutsideLimit"))
    ELSE set_ptemp(value, resp)

\* ------------------------------------------------ script: Test_cryoadvance

\* print(cryo.get_platform_temperature_stability()[0])
print_stability(resp) == GetIndex(get_platform_temperature_stability(cryo, resp), 0)

\* ----------------------------------------------------------- state machine

\* The samples a thermometer can report.
Samples == {Sample(T, ok, st) : T \in Temps, ok \in Flags, st \in Flags}

\* What the mock transport can answer to a POST or PUT.
AckAnswers == {Failure(e) : e \in TransportErrors} \cup {Success(Ack)}

\* What the mock transport can answer to a GET of path: an error, a body without
\* the envelope key, or the property's envelope.
GetAnswers(path) ==
    {Failure(e) : e \in TransportErrors} \cup {Success(Malformed)}
      \cup {Success(Envelope(path, inner)) :
               inner \in IF leaf(path) = "sample" THEN Samples ELSE Temps}

\* The mock transport answers the request it is sent.
Answers(req) == IF req.verb = "GET" THEN GetAnswers(req.path) ELSE AckAnswers

\* Every answer the mock transport has.
AnyAnswer ==
    AckAnswers \cup GetAnswers(PlatformSamplePath) \cup GetAnswers(TargetTemperaturePath)

NoCall ==
    [layer |-> "none", name |-> "none", arg |-> <<>>, reqs |-> <<>>,
     resp |-> NoResponse, out |-> Return(None)]

\* Variant of Record in which a raising call puts the device in FAULT.
Record_fault(layer, name, arg, d, resp) ==
    /\ Len(log) < MaxCalls
    /\ IF d.reqs = <<>> THEN TRUE ELSE resp \in Answers(d.reqs[1])
    /\ last' = [layer |-> layer, name |-> name, arg |-> arg, reqs |-> d.reqs,
                resp |-> IF d.reqs = <<>> THEN NoResponse ELSE resp, out |-> d.out]
    /\ log' = Append(log, [layer |-> layer, name |-> name, arg |-> arg, reqs |-> d.reqs])
    /\ state' = IF d.out.kind = "raise" THEN "FAULT" ELSE state
    /\ UNCHANGED <<program, IP, device, cryo>>

\* One completed call: what was called (arg is the tuple of its arguments), what
\* it sent, what the transport answered (when anything was sent) and how it ended.  No method of either program
\* assigns to the adapter reference, the held address or the device state.
Record(layer, name, arg, d, resp) ==
    /\ Len(log) < MaxCalls
    /\ IF d.reqs = <<>> THEN TRUE ELSE resp \in Answers(d.reqs[1])
    /\ last' = [layer |-> layer, name |-> name, arg |-> arg, reqs |-> d.reqs,
                resp |-> IF d.reqs = <<>> THEN NoResponse ELSE resp, out |-> d.out]
    /\ log' = Append(log, [layer |-> layer, name |-> name, arg |-> arg, reqs |-> d.reqs])
    /\ UNCHANGED <<program, IP, device, state, cryo>>

\* A behaviour is a run of one of the two programs: the device server, started
\* with its IP property, or the script, which builds its adapter at import.
Init ==
    /\ \/ /\ program = "server"
          /\ IP \in IPs
          /\ cryo = NoAdapter
       \/ /\ program = "script"
          /\ IP = NoAdapter
          /\ cryo = ScriptIP
    /\ device = NoAdapter
    /\ state = "UNKNOWN"
    /\ last = NoCall
    /\ log = <<>>

init_device ==
    /\ program = "server"
    /\ device' = IP
    /\ state' = "ON"
    /\ UNCHANGED <<program, IP, cryo, last, log>>

\* --- the device server's methods, served once init_device has run

Call_cooldown ==
    /\ device # NoAdapter
    /\ \E resp \in AnyAnswer :
         Record("server", "cooldown", <<>>, cooldown(resp), resp)

Call_warmup ==
    /\ device # NoAdapter
    /\ \E resp \in AnyAnswer :
         Record("server", "warmup", <<>>, warmup(resp), resp)

Call_pull_vacuum ==
    /\ device # NoAdapter
    /\ \E resp \in AnyAnswer :
         Record("server", "pull_vacuum", <<>>, pull_vacuum(resp), resp)

Call_abort ==
    /\ device # NoAdapter
    /\ \E resp \in AnyAnswer :
         Record("server", "abort", <<>>, abort(resp), resp)

Read_ptemp ==
    /\ device # NoAdapter
    /\ \E resp \in AnyAnswer :
         Record("server", "ptemp", <<>>, get_ptemp(resp), resp)

Read_stemp ==
    /\ device # NoAdapter
    /\ \E resp \in AnyAnswer :
         Record("server", "stemp", <<>>, get_stemp(resp), resp)

Read_isStable ==
    /\ device # NoAdapter
    /\ \E resp \in AnyAnswer :
         Record("server", "isStable", <<>>, get_stability(resp), resp)

Read_settemp ==
    /\ device # NoAdapter
    /\ \E resp \in AnyAnswer :
         Record("server", "settemp.read", <<>>, get_settemp(resp), resp)

Write_settemp ==
    /\ device # NoAdapter
    /\ \E V \in Vals, resp \in AnyAnswer :
         Record("server", "settemp.write", <<V>>, settemp(V, resp), resp)

\* --- the adapter's methods, called on the script's adapter object

Cryo_cooldown ==
    /\ cryo # NoAdapter
    /\ \E resp \in AnyAnswer :
      Record("adapter", "cooldown", <<>>, CryoAdvance_cooldown(cryo, resp), resp)

Cryo_warmup ==
    /\ cryo # NoAdapter
    /\ \E resp \in AnyAnswer :
      Record("adapter", "warmup", <<>>, CryoAdvance_warmup(cryo, resp), resp)

Cryo_pull_vacuum ==
    /\ cryo # NoAdapter
    /\ \E resp \in AnyAnswer :
      Record("adapter", "pull_vacuum", <<>>, CryoAdvance_pull_vacuum(cryo, resp), resp)

Cryo_abort_goal ==
    /\ cryo # NoAdapter
    /\ \E resp \in AnyAnswer :
      Record("adapter", "abort_goal", <<>>, abort_goal(cryo, resp), resp)

Cryo_get_platform_temperature ==
    /\ cryo # NoAdapter
    /\ \E resp \in AnyAnswer :
      Record("adapter", "get_platform_temperature", <<>>,
                 get_platform_temperature(cryo, resp), resp)

Cryo_get_platform_temperature_stability ==
    /\ cryo # NoAdapter
    /\ \E resp \in AnyAnswer :
      Record("adapter", "get_platform_temperature_stability", <<>>,
                 get_platform_temperature_stability(cryo, resp), resp)

Script_print_stability ==
    /\ cryo # NoAdapter
    /\ \E resp \in AnyAnswer :
         Record("script", "print_stability", <<>>, print_stability(resp), resp)

Cryo_get_sample_temperature ==
    /\ cryo # NoAdapter
    /\ \E resp \in AnyAnswer :
      Record("adapter", "get_sample_temperature", <<>>,
                 get_sample_temperature(cryo, resp), resp)

Cryo_get_platform_target_temperature ==
    /\ cryo # NoAdapter
    /\ \E resp \in AnyAnswer :
      Record("adapter", "get_platform_target_temperature", <<>>,
                 get_platform_target_temperature(cryo, resp), resp)

Cryo_set_platform_target_temperature ==
    /\ cryo # NoAdapter
    /\ \E V \in Vals, resp \in AnyAnswer :
      Record("adapter", "set_platform_target_temperature", <<V>>,
                 set_platform_target_temperature(cryo, V, resp), resp)

Cryo_call_method ==
    /\ cryo # NoAdapter
    /\ \E P \in MethodPaths, resp \in AnyAnswer :
      Record("adapter", "call_method", <<P>>, call_method(cryo, P, resp), resp)

Cryo_get_prop ==
    /\ cryo # NoAdapter
    /\ \E P \in PropPaths, resp \in AnyAnswer :
         Record("adapter", "get_prop", <<P>>, get_prop(cryo, P, resp), resp)

Cryo_set_prop ==
    /\ cryo # NoAdapter
    /\ \E P \in PropPaths, V \in Vals, resp \in AnyAnswer :
         Record("adapter", "set_prop", <<P, V>>, set_prop(cryo, P, V, resp), resp)

Next ==
    \/ init_device
    \/ Call_cooldown
    \/ Call_warmup
    \/ Call_pull_vacuum
    \/ Call_abort
    \/ Read_ptemp
    \/ Read_stemp
    \/ Read_isStable
    \/ Read_settemp
    \/ Write_settemp
    \/ Cryo_cooldown
    \/ Cryo_warmup
    \/ Cryo_pull_vacuum
    \/ Cryo_abort_goal
    \/ Cryo_get_platform_temperature
    \/ Cryo_get_platform_temperature_stability
    \/ Script_print_stability
    \/ Cryo_get_sample_temperature
    \/ Cryo_get_platform_target_temperature
    \/ Cryo_set_platform_target_temperature
    \/ Cryo_call_method
    \/ Cryo_get_prop
    \/ Cryo_set_prop

Spec == Init /\ [][Next]_vars

\* ------------------------------------------------------------------ claims

\* The single request a call is expected to issue.
Only(verb, host, path, body) == <<Request(verb, host, path, body)>>

\* The last call got a well-formed sample envelope from the transport.
GotSample == last.resp.err = "none" /\ "sample" \in DOMAIN last.resp.body

\* C1: each of the four device-server actions issues exactly one body-less POST to
\* its own pseudo-path (cooldown to /controller/methods/cooldown()), through the
\* adapter method of the same purpose.
C1_ActionsPassThrough ==
    /\ last.layer = "server" /\ last.name = "cooldown"
         => last.reqs = Only("POST", device, <<"controller", "methods", "cooldown()">>, NoBody)
    /\ last.layer = "server" /\ last.name = "warmup"
         => last.reqs = Only("POST", device, <<"controller", "methods", "warmup()">>, NoBody)
    /\ last.layer = "server" /\ last.name = "pull_vacuum"
         => last.reqs = Only("POST", device, <<"controller", "methods", "pullVacuum()">>, NoBody)
    /\ last.layer = "server" /\ last.name = "abort"
         => last.reqs = Only("POST", device, <<"controller", "methods", "abortGoal()">>, NoBody)

\* C2: a write of V to settemp results in exactly one PUT to
\* /controller/properties/platformTargetTemperature with body
\* {platformTargetTemperature: V}, and a read of settemp is one GET of that property.
\* Stated for the values the attribute admits, min_value <= V <= max_value.
C2_SettempPassThrough ==
    /\ last.name = "settemp.write" /\ min_value <= last.arg[1] /\ last.arg[1] <= max_value
         => last.reqs = Only("PUT", device,
                             <<"controller", "properties", "platformTargetTemperature">>,
                             JsonObject("platformTargetTemperature", last.arg[1]))
    /\ last.name = "settemp.read"
         => last.reqs = Only("GET", device,
                             <<"controller", "properties", "platformTargetTemperature">>,
                             NoBody)

\* Calls that unwrap the envelope they get.
Unwrapping ==
    {"ptemp", "stemp", "isStable", "settemp.read", "print_stability",
     "get_platform_temperature", "get_platform_temperature_stability",
     "get_sample_temperature", "get_platform_target_temperature"}

\* C3: when the request a call issued fails in the transport, or its body lacks the
\* envelope key, the call raises that same error, after exactly one request: no
\* adapter method, attribute method or action catches, translates or retries.
C3_ErrorsPropagate ==
    /\ last.reqs # <<>> /\ last.resp.err # "none"
         => last.out = Raise(last.resp.err) /\ Len(last.reqs) = 1
    /\ last.reqs # <<>> /\ last.resp = Success(Malformed) /\ last.name \in Unwrapping
         => last.out = Raise("KeyError") /\ Len(last.reqs) = 1

C3_Witness ==
    /\ last.layer = "server"
    /\ last.name = "ptemp"
    /\ last.resp.err = "ConnectionError"
    /\ last.out = Raise("ConnectionError")

C5_IsStableMeansStable ==
    last.name = "isStable" /\ GotSample
      => last.out = Return(last.resp.body.sample.temperatureStable)

\* C6: set_prop(P, V) issues exactly one PUT to P whose body is the single-key
\* object {trailing segment of P: V}, and returns the decoded response.
C6_SetProp ==
    last.name = "set_prop"
      => /\ Len(last.reqs) = 1
         /\ last.reqs[1].verb = "PUT"
         /\ last.reqs[1].host = cryo
         /\ last.reqs[1].path = last.arg[1]
         /\ last.arg[1] = TargetTemperaturePath
              => last.reqs[1].body = JsonObject("platformTargetTemperature", last.arg[2])
         /\ last.arg[1] = PlatformSamplePath
              => last.reqs[1].body = JsonObject("sample", last.arg[2])
         /\ last.resp.err = "none" => last.out = Return(last.resp.body)

C6_Witness ==
    /\ last.name = "set_prop"
    /\ last.arg = <<PlatformSamplePath, 351>>
    /\ last.reqs[1].body = JsonObject("sample", 351)
    /\ last.out = Return(Ack)

\* C7: get_prop(P) issues exactly one GET to P and returns the decoded envelope
\* as it is, outer key included.
C7_GetProp ==
    last.name = "get_prop"
      => /\ last.reqs = Only("GET", cryo, last.arg[1], NoBody)
         /\ last.resp.err = "none" => last.out = Return(last.resp.body)

C7_Witness ==
    /\ last.name = "get_prop"
    /\ last.arg = <<PlatformSamplePath>>
    /\ GotSample
    /\ last.out.kind = "return"
    /\ DOMAIN last.out.val = {"sample"}
    /\ last.out.val.sample.temperature = 295

\* C8: given the envelope {"sample": {"temperature": T, ...}} for the platform sample
\* path, get_platform_temperature() and a read of ptemp issue exactly one GET to
\* that path and return exactly T.
C8_PlatformTemperature ==
    /\ last.name = "get_platform_temperature" /\ GotSample
         => /\ last.reqs = Only("GET", cryo, PlatformSamplePath, NoBody)
            /\ last.out = Return(last.resp.body.sample.temperature)
    /\ last.name = "ptemp" /\ GotSample
         => /\ last.reqs = Only("GET", device, PlatformSamplePath, NoBody)
            /\ last.out = Return(last.resp.body.sample.temperature)

C8_Witness ==
    /\ last.name = "ptemp"
    /\ GotSample
    /\ last.out = Return(295)

SetRequests == {"settemp.write", "set_platform_target_temperature"}

\* C9 as stated, on the values it singles out: a target-temperature set request with
\* V below 0 or above 350, through the adapter or through a write of settemp, is
\* forwarded to the instrument unchanged and not rejected on this side.
C9_NoRangeValidation ==
    last.name \in SetRequests /\ (last.arg[1] < 0 \/ last.arg[1] > 350)
      => /\ Len(last.reqs) = 1
         /\ last.reqs[1].verb = "PUT"
         /\ last.reqs[1].body = JsonObject("platformTargetTemperature", last.arg[1])

\* C9 amended: the adapter's set_platform_target_temperature(V) forwards every V
\* unchanged and raises nothing but the transport's error; a write of settemp with V
\* below 0 or above 350 is rejected by the attribute's limits, with no request.
C9_RangeCheckedOnlyByAttribute ==
    /\ last.name = "set_platform_target_temperature"
         => /\ last.reqs = Only("PUT", cryo, TargetTemperaturePath,
                                JsonObject("platformTargetTemperature", last.arg[1]))
            /\ last.out = IF last.resp.err = "none" THEN Return(last.resp.body)
                          ELSE Raise(last.resp.err)
    /\ last.name = "settemp.write" /\ (last.arg[1] < 0 \/ last.arg[1] > 350)
         => /\ last.reqs = <<>>
            /\ last.out = Raise("API_WAttrOutsideLimit")

C9_Witness ==
    /\ last.name = "settemp.write"
    /\ last.arg = <<351>>
    /\ last.reqs = <<>>
    /\ last.out = Raise("API_WAttrOutsideLimit")

\* The call recorded at position i of the log, without what it sent.
CallOf(i) == <<log[i].layer, log[i].name, log[i].arg>>

\* C10: once init_device has built the adapter from the IP property and set state
\* ON, no call (returning or raising) changes the held address or the state; every
\* call issues at most one request, and calls with the same name and arguments
\* issue the same request whatever was called before.
C10_Stateless ==
    /\ [](/\ device # NoAdapter => device = IP /\ state = "ON"
          /\ program = "script" => cryo = ScriptIP
          /\ \A i \in 1..Len(log) : Len(log[i].reqs) <= 1
          /\ \A i, j \in 1..Len(log) : CallOf(i) = CallOf(j) => log[i].reqs = log[j].reqs)
    /\ [][/\ IP' = IP
          /\ cryo' = cryo
          /\ device # NoAdapter => device' = device /\ state' = state]_vars

C10_Witness ==
    /\ program = "server"
    /\ Len(log) = 2
    /\ log[1].name = "ptemp"
    /\ log[2].name = "ptemp"
    /\ last.out.kind = "raise"
    /\ device = IP
    /\ state = "ON"

====
